---- MODULE Spec2Model ----
(***************************************************************************)
(* Model of the concurrency core of src/main.js: the serial TaskQueue with *)
(* a per-job timeout, the send wrapper enqueueSendOperation, the session   *)
(* failover and the reply correlator (Spec, CorrSpec), and of the          *)
(* readiness-gated queue of src/unnamed/part_000 (GateSpec).  ValSpec adds *)
(* the input validation of POST /enviar-mensaje, DestroySpec the ways      *)
(* client.destroy() can fail, InboundSpec the log of inbound messages.     *)
(*                                                                         *)
(* The program runs on a single-threaded event loop.  A macrotask (an HTTP *)
(* request, a timer callback, the provider settling a send, a session      *)
(* event) runs to completion, and every promise continuation it makes      *)
(* runnable runs before the next macrotask.  The continuations that are    *)
(* observable separately (the wrapper's catch, the HTTP handler's          *)
(* continuation) are kept in the FIFO `microtasks`; a macrotask is enabled *)
(* only while that queue is empty.                                         *)
(*                                                                         *)
(* Time is counted in ticks.  An armed timer holds the ticks that remain;  *)
(* a tick passes only while no armed timer is due.                         *)
(***************************************************************************)
EXTENDS Integers, Sequences, FiniteSets, TLC

\* ------------------------------------------------------------------ bounds
\* Number of send requests the HTTP surface receives.
MaxJobs == 3
\* Number of disconnected events the provider emits.
MaxDisconnects == 1
\* The two timeout budgets the handlers pass (45000 ms and 120000 ms), in ticks.
MsShort == 1
MsLong == 2
\* The bounded wait of the readiness gate (60000 ms), in ticks.
MsGate == 2
\* Conversations that take part in /esperar, lookups issued on /respuesta, and
\* distinct inbound message bodies.
MaxConvs == 1
MaxLookups == 2
MaxBodies == 2

\* sessionIds.length
PoolSize == 2
\* The length a number must have (`numero.length !== 13`).
NumeroLength == 13

JobIds == 1..MaxJobs
MaxSessions == 1 + MaxJobs + MaxDisconnects
SessIds == 1..MaxSessions
TimeoutChoices == {MsShort, MsLong}
Outcomes == {"success", "fault", "timeout"}
Convs == 1..MaxConvs
\* The provider gives every sent message its own id: the id of the message
\* sent by job j is j.
MsgIds == JobIds
Waiters == 1..MaxLookups
Bodies == 1..MaxBodies
\* Lengths of the `numero` field of a request (0: the field is missing).
NumeroLens == {0, NumeroLength - 1, NumeroLength, NumeroLength + 1}

VARIABLES
  \* TaskQueue
  queue,          \* this.queue: job ids waiting, in arrival order
  processing,     \* this.processing
  \* jobs (indexed by job id = enqueue order)
  nJobs,          \* jobs enqueued so far
  timeoutMs,      \* job.timeoutMs
  finished,       \* the `finished` flag of the job's _runWithTimeout call
  timerArmed,     \* jobs whose setTimeout is pending
  remaining,      \* ticks until the job's timer is due
  inflight,       \* jobs whose client.sendMessage call has not settled
  sentOn,         \* session instance the job's sendMessage was called on (0: none)
  \* what each job's caller observed
  outcome,        \* how the enqueue() promise settled ("none" while pending)
  deliveries,     \* number of job.resolve / job.reject calls
  invoked,        \* number of job.fn() calls
  startOrder,     \* job ids in the order their fn() was called
  elapsed,        \* ticks the job has been executing without an outcome
  callerResult,   \* what enqueueSendOperation surfaced to the HTTP handler
  failoverBy,     \* the job's wrapper has run failover()
  faultSess,      \* session that was current when a job ahead failed with a fault
                  \* while this job was waiting in the queue (0: never happened)
  \* SessionController
  client,                \* current session instance
  currentSessionIndex,   \* index into sessionIds (0-based)
  nSessions,             \* session instances created so far
  sessState,             \* per instance: "none", "connecting", "ready", "disconnected"
  sessIdentity,          \* per instance: index into sessionIds it was created with
  destroyRequested,      \* instances on which destroy() was called
  destroyResult,         \* how that call of destroy() ended, per instance
  serverListening,
  nDisconnects,
  \* readiness gate (src/unnamed/part_000)
  clientReady,    \* the global flag
  gateJob,        \* job whose waitForClientReady() call is pending (0: none)
  gateOn,         \* instance the pending call registered once('ready') on
  gateRemaining,  \* ticks until the pending call's timer is due
  \* correlator
  waitConv,       \* per job: chatId of the /esperar request (0: a plain send)
  esperas,        \* Map chatId -> idMensaje
  respuestas,     \* Map idMensaje -> inbound message
  resolvers,      \* Map idMensaje -> the resolve functions of suspended lookups
  timeouts,       \* keys of the Map idMensaje -> timer id
  deadlineArmed,  \* ids whose 5 minute setTimeout is pending
  lookups,        \* per /respuesta request: what it asked for and was answered
  enqueuedOn,     \* per job of /enviar-mensaje or /enviar-archivo whose call of
                  \* enqueueSendOperation has not returned: the instance that
                  \* was current when the job was enqueued
  inboundLog,     \* the message handler's log line for the latest inbound
                  \* message: its chatId, and a bit that flips per message
  \* HTTP surface
  lastReq,        \* the latest POST /enviar-mensaje: its fields and, when it was
                  \* rejected by validation, the status it was answered with
  \* event loop
  microtasks

queueVars == <<queue, processing>>
jobVars == <<nJobs, timeoutMs, finished, timerArmed, remaining, inflight, sentOn>>
obsVars == <<outcome, deliveries, invoked, startOrder, elapsed, callerResult,
             failoverBy, faultSess>>
sessVars == <<client, currentSessionIndex, nSessions, sessState, sessIdentity,
              destroyRequested, serverListening, nDisconnects>>
gateVars == <<clientReady, gateJob, gateOn, gateRemaining>>
corrVars == <<waitConv, esperas, respuestas, resolvers, timeouts, deadlineArmed, lookups>>
vars == <<queueVars, jobVars, obsVars, sessVars, gateVars, corrVars, lastReq,
          destroyResult, enqueuedOn, inboundLog, microtasks>>

\* ------------------------------------------------------------------ helpers
\* Mutants of Shift: the newest job is taken (pop), the head is read but not
\* removed (queue[0]).
Pop(q) == [job |-> q[Len(q)], rest |-> SubSeq(q, 1, Len(q) - 1)]
Peek(q) == [job |-> Head(q), rest |-> q]

\* Array.prototype.shift on this.queue: the job taken and what is left.
Shift(q) == [job |-> Head(q), rest |-> Tail(q)]

\* Mutant of CanStartLoop: the guard on this.processing is missing.
CanStartLoopAlways == TRUE

\* `if (this.processing) return`: a call of _process starts a loop only when
\* none is active.
CanStartLoop == ~processing

\* Mutant of LoopSurvives: no catch around the await, a rejection ends the loop.
LoopSurvivesSuccess(oc) == oc = "success"

\* try { ... job.resolve } catch (err) { job.reject(err) }: the loop goes on to
\* its `while` test after a job of any outcome.
LoopSurvives(oc) == oc \in Outcomes

\* Mutant of AfterDrain: the flag is not reset when the queue is drained.
AfterDrainStuck == TRUE

\* `this.processing = false` after the `while` loop.
AfterDrain == FALSE

\* Mutant of TimerTicks: the timer ignores job.timeoutMs and uses one budget
\* for every job.
TimerTicksFixed(ms) == MsShort

\* The timer armed for a job by _runWithTimeout(job.fn, job.timeoutMs).
TimerTicks(ms) == ms

\* Mutant of TimerOutcome: the timer callback calls resolve instead of reject.
TimerOutcomeResolve == "success"

\* How _runWithTimeout settles when the timer callback wins, when fn() resolves
\* and when fn() rejects.
TimerOutcome == "timeout"
ResolveOutcome == "success"
RejectOutcome == "fault"

\* Mutants of WrapperFailsOver: the catch block does not call failover(); it
\* calls it only for an error thrown by the provider.
WrapperNeverFailsOver(oc) == FALSE
WrapperFailsOverOnFault(oc) == oc = "fault"

\* enqueueSendOperation: `catch (err) { ... failover() ...; throw err }` runs
\* for every rejection of the enqueue() promise.
WrapperFailsOver(oc) == oc # "success"

\* enqueueSendOperation: `return await ...` / `throw err`: the caller gets the
\* value, or the very error the queue rejected with.
WrapperResult(oc) == oc

\* The jobs that the loop starts next, given the queue it finds: the head, or
\* none when the queue is empty.
Started(q) == IF q = <<>> THEN {} ELSE {Shift(q).job}
Rest(q) == IF q = <<>> THEN q ELSE Shift(q).rest

Running(j) == invoked[j] > 0 /\ outcome[j] = "none"

\* No inbound message was handled yet.
NoInbound == [from |-> 0, n |-> 0]

\* No POST /enviar-mensaje was received yet.
NoRequest == [numero |-> 0, texto |-> FALSE, status |-> 0]

\* A /respuesta request that was not issued yet.
IdleLookup == [st |-> "idle", m |-> 0, body |-> 0]

\* Map.prototype.has / set / delete on a Map held as a function.
MapHas(f, k) == k \in DOMAIN f
MapSet(f, k, v) == [x \in (DOMAIN f) \cup {k} |-> IF x = k THEN v ELSE f[x]]
MapDelete(f, k) == [x \in (DOMAIN f) \ {k} |-> f[x]]

\* ------------------------------------------------------------------ initial state
\* After the module body ran: the first client is created under sessionIds[0]
\* and initialize() was called; the HTTP server is not listening yet.
Init ==
  /\ queue = <<>>
  /\ processing = FALSE
  /\ nJobs = 0
  /\ timeoutMs = [j \in JobIds |-> 0]
  /\ finished = [j \in JobIds |-> FALSE]
  /\ timerArmed = {}
  /\ remaining = [j \in JobIds |-> 0]
  /\ inflight = {}
  /\ sentOn = [j \in JobIds |-> 0]
  /\ outcome = [j \in JobIds |-> "none"]
  /\ deliveries = [j \in JobIds |-> 0]
  /\ invoked = [j \in JobIds |-> 0]
  /\ startOrder = <<>>
  /\ elapsed = [j \in JobIds |-> 0]
  /\ callerResult = [j \in JobIds |-> "none"]
  /\ failoverBy = [j \in JobIds |-> FALSE]
  /\ faultSess = [j \in JobIds |-> 0]
  /\ client = 1
  /\ currentSessionIndex = 0
  /\ nSessions = 1
  /\ sessState = [s \in SessIds |-> IF s = 1 THEN "connecting" ELSE "none"]
  /\ sessIdentity = [s \in SessIds |-> 0]
  /\ destroyRequested = {}
  /\ destroyResult = [s \in SessIds |-> "none"]
  /\ serverListening = FALSE
  /\ nDisconnects = 0
  /\ clientReady = FALSE
  /\ gateJob = 0
  /\ gateOn = 0
  /\ gateRemaining = 0
  /\ waitConv = [j \in JobIds |-> 0]
  /\ esperas = <<>>
  /\ respuestas = <<>>
  /\ resolvers = <<>>
  /\ timeouts = {}
  /\ deadlineArmed = {}
  /\ lookups = [w \in Waiters |-> IdleLookup]
  /\ lastReq = NoRequest
  /\ enqueuedOn = [j \in JobIds |-> 0]
  /\ inboundLog = NoInbound
  /\ microtasks = <<>>

\* ------------------------------------------------------------------ TaskQueue
Range(q) == {q[i] : i \in 1..Len(q)}

\* One turn of the `while` body of _process up to its await, for the jobs in S
\* (one job, or none): _runWithTimeout arms the timer with job.timeoutMs and
\* calls job.fn(), whose wrapped task calls client.sendMessage on the session
\* that is current at that moment.  fin, armed and fl are finished, timerArmed
\* and inflight as the caller leaves them; tm is timeoutMs.  The bookkeeping of
\* a timer that is no longer armed and of a call that is no longer in flight is
\* cleared.
\* Mutant of SendTarget: the task uses the instance that was current when the
\* job was enqueued.
SendTargetEnqueued(k) == IF enqueuedOn[k] = 0 THEN client ELSE enqueuedOn[k]

\* The instance on which the task of job k calls sendMessage: the task reads
\* the global `client` when it runs.
SendTarget(k) == client

StartJobs(S, tm, fin, armed, fl) ==
  /\ finished' = [k \in JobIds |-> IF k \in S THEN FALSE ELSE fin[k]]
  /\ timerArmed' = armed \cup S
  /\ remaining' = [k \in JobIds |->
                     IF k \in S THEN TimerTicks(tm[k])
                     ELSE IF k \in armed THEN remaining[k] ELSE 0]
  /\ inflight' = fl \cup S
  /\ sentOn' = [k \in JobIds |->
                  IF k \in S THEN SendTarget(k) ELSE IF k \in fl THEN sentOn[k] ELSE 0]
  /\ invoked' = [k \in JobIds |-> IF k \in S THEN invoked[k] + 1 ELSE invoked[k]]
  /\ startOrder' = IF S = {} THEN startOrder
                   ELSE Append(startOrder, CHOOSE k \in S : TRUE)

\* The continuation of _process after `await this._runWithTimeout(...)` settled
\* for job j with outcome oc: job.resolve / job.reject, then the `while` test
\* and, if a job waits, the next turn of the loop; otherwise processing = false.
\* The enqueue() promise of j settles, so the continuation of
\* enqueueSendOperation becomes runnable.  The loop drops the job object: its
\* budget and its running time leave the model.
SettleJob(j, oc, fin, armed, fl) ==
  /\ outcome' = [outcome EXCEPT ![j] = IF @ = "none" THEN oc ELSE @]
  /\ deliveries' = [deliveries EXCEPT ![j] = @ + 1]
  /\ microtasks' = Append(microtasks, [type |-> "wrapper", job |-> j, result |-> "none"])
  /\ timeoutMs' = [timeoutMs EXCEPT ![j] = 0]
  /\ elapsed' = [elapsed EXCEPT ![j] = 0]
  /\ IF LoopSurvives(oc)
       THEN /\ queue' = Rest(queue)
            /\ processing' = IF queue = <<>> THEN AfterDrain ELSE processing
            /\ StartJobs(Started(queue), timeoutMs, fin, armed, fl)
       ELSE /\ UNCHANGED <<queue, processing>>
            /\ StartJobs({}, timeoutMs, fin, armed, fl)
  /\ faultSess' = [k \in JobIds |->
                     IF oc = RejectOutcome /\ k \in Range(queue) THEN client
                     ELSE IF k \in Range(queue) \cup inflight' THEN faultSess[k] ELSE 0]

\* An HTTP send request with valid input (c is the chatId when the request is
\* /esperar, 0 otherwise): the handler builds its task and calls
\* enqueueSendOperation(task, {timeoutMs: ms}), which calls sendQueue.enqueue:
\* push the job, call _process().  When no loop is active the call starts one,
\* which takes the head of the queue and starts it before the handler suspends.
EnqueueJob(ms, c) ==
  /\ microtasks = <<>>
  /\ serverListening
  /\ nJobs < MaxJobs
  /\ LET j == nJobs + 1
         q1 == Append(queue, j)
         tm == [timeoutMs EXCEPT ![j] = ms]
     IN /\ nJobs' = j
        /\ timeoutMs' = tm
        /\ waitConv' = [waitConv EXCEPT ![j] = c]
        /\ IF CanStartLoop
             THEN /\ processing' = TRUE
                  /\ queue' = Rest(q1)
                  /\ StartJobs(Started(q1), tm, finished, timerArmed, inflight)
             ELSE /\ queue' = q1
                  /\ UNCHANGED processing
                  /\ StartJobs({}, tm, finished, timerArmed, inflight)
  /\ UNCHANGED <<outcome, deliveries, elapsed, callerResult, failoverBy, faultSess>>
  /\ UNCHANGED <<sessVars, microtasks>>
  /\ UNCHANGED <<esperas, respuestas, resolvers, timeouts, deadlineArmed, lookups>>
  /\ UNCHANGED gateVars
  /\ UNCHANGED destroyResult
  /\ UNCHANGED inboundLog

\* POST /enviar-mensaje (45000 ms) or /enviar-archivo (120000 ms).
Enqueue(ms) ==
  /\ EnqueueJob(ms, 0)
  /\ enqueuedOn' = [enqueuedOn EXCEPT ![nJobs + 1] = client]
  /\ UNCHANGED lastReq

\* POST /esperar for conversation c: the send is queued with 45000 ms.
EnqueueWait(c) == EnqueueJob(MsShort, c) /\ UNCHANGED <<lastReq, enqueuedOn>>

\* `if (!numero || !texto)`: n is numero.length (0 when numero is missing or
\* empty), t tells whether texto is present and not empty.
MissingData(n, t) == n = 0 \/ ~t

\* Mutant of ValidInput: the length of the number is not checked.
ValidInputNoLength(n, t) == ~MissingData(n, t)

\* The two validation tests of the handler let the request through.
ValidInput(n, t) == ~MissingData(n, t) /\ n = NumeroLength

\* The status of the answer to a request that validation rejects.
RejectStatus(n, t) == IF MissingData(n, t) THEN 400 ELSE 404

\* POST /enviar-mensaje with a number of length n and texto present or not:
\* the handler answers 400 or 404 and returns, or builds its task and calls
\* enqueueSendOperation(task, {timeoutMs: 45000}).
SendRequest(n, t) ==
  IF ValidInput(n, t)
    THEN /\ EnqueueJob(MsShort, 0)
         /\ enqueuedOn' = [enqueuedOn EXCEPT ![nJobs + 1] = client]
         /\ lastReq' = [numero |-> n, texto |-> t, status |-> 0]
    ELSE /\ microtasks = <<>>
         /\ serverListening
         /\ lastReq' = [numero |-> n, texto |-> t, status |-> RejectStatus(n, t)]
         /\ UNCHANGED <<queueVars, jobVars, obsVars, sessVars, gateVars, corrVars,
                        destroyResult, enqueuedOn, inboundLog, microtasks>>

\* The timer callback of _runWithTimeout for job j.
TimerFire(j) ==
  /\ microtasks = <<>>
  /\ j \in timerArmed
  /\ remaining[j] = 0
  /\ IF finished[j]
       THEN /\ StartJobs({}, timeoutMs, finished, timerArmed \ {j}, inflight)
            /\ faultSess' = [k \in JobIds |->
                               IF k \in Range(queue) \cup inflight' THEN faultSess[k] ELSE 0]
            /\ UNCHANGED <<queue, processing, timeoutMs, elapsed, outcome, deliveries,
                           microtasks>>
       ELSE SettleJob(j, TimerOutcome, [finished EXCEPT ![j] = TRUE],
                      timerArmed \ {j}, inflight)
  /\ UNCHANGED <<nJobs, callerResult, failoverBy, sessVars>>
  /\ UNCHANGED gateVars
  /\ UNCHANGED corrVars
  /\ UNCHANGED lastReq
  /\ UNCHANGED enqueuedOn
  /\ UNCHANGED inboundLog
  /\ UNCHANGED destroyResult

\* The provider settles the sendMessage call of job j: fn() resolves (ok) or
\* rejects.  The .then / .catch callbacks of _runWithTimeout return at once
\* when `finished` is set (the timer won earlier); otherwise they set it, clear
\* the timer and settle.
SendSettles(j, ok) ==
  /\ microtasks = <<>>
  /\ j \in inflight
  /\ IF finished[j]
       THEN /\ StartJobs({}, timeoutMs, finished, timerArmed, inflight \ {j})
            /\ faultSess' = [k \in JobIds |->
                               IF k \in Range(queue) \cup inflight' THEN faultSess[k] ELSE 0]
            /\ UNCHANGED <<queue, processing, timeoutMs, elapsed, outcome, deliveries,
                           microtasks>>
       ELSE SettleJob(j, IF ok THEN ResolveOutcome ELSE RejectOutcome,
                      [finished EXCEPT ![j] = TRUE], timerArmed \ {j}, inflight \ {j})
  /\ UNCHANGED <<nJobs, callerResult, failoverBy, sessVars>>
  /\ UNCHANGED gateVars
  /\ UNCHANGED corrVars
  /\ UNCHANGED lastReq
  /\ UNCHANGED enqueuedOn
  /\ UNCHANGED inboundLog
  /\ UNCHANGED destroyResult

SendResolves(j) == SendSettles(j, TRUE)
SendRejects(j) == SendSettles(j, FALSE)

\* One tick of time passes: no armed timer is due.
Tick ==
  /\ microtasks = <<>>
  /\ timerArmed # {}
  /\ \A j \in timerArmed : remaining[j] > 0
  /\ remaining' = [j \in JobIds |-> IF j \in timerArmed THEN remaining[j] - 1 ELSE remaining[j]]
  /\ elapsed' = [j \in JobIds |-> IF Running(j) THEN elapsed[j] + 1 ELSE elapsed[j]]
  /\ UNCHANGED <<queueVars, nJobs, timeoutMs, finished, timerArmed, inflight, sentOn>>
  /\ UNCHANGED <<outcome, deliveries, invoked, startOrder, callerResult, failoverBy,
                 faultSess>>
  /\ UNCHANGED <<sessVars, microtasks>>
  /\ UNCHANGED gateVars
  /\ UNCHANGED corrVars
  /\ UNCHANGED lastReq
  /\ UNCHANGED enqueuedOn
  /\ UNCHANGED inboundLog
  /\ UNCHANGED destroyResult

\* ------------------------------------------------------------------ SessionController
\* failover(): destroy() is called on the current client (its errors are
\* swallowed), the index advances by one modulo the pool size, a new client is
\* created under sessionIds[index], made current and initialize() is called.
\* Mutant of NextIndex: the index is not wrapped at the end of the pool.
NextIndexNoWrap(i) == i + 1

\* Mutant of NextIndex: the index is not advanced.
NextIndexStay(i) == i

NextIndex(i) == (i + 1) % PoolSize

\* Mutant of CreateClient: an instance that was already created under the
\* identity is handed out again.
CreateClientCached(n, idx) ==
  IF \E s \in 1..n : sessIdentity[s] = idx
    THEN CHOOSE s \in 1..n : sessIdentity[s] = idx
    ELSE n + 1

\* createClient(sessionIds[idx]) when n instances exist: `new Client(...)`, an
\* instance of its own whatever the identity.
CreateClient(n, idx) == n + 1

\* The ways client.destroy() can end: its promise resolves, the call throws,
\* its promise rejects.
DestroyOutcomes == {"ok", "throws", "rejects"}

\* Mutant of FailoverCompletes: a destroy() that throws ends failover.
FailoverCompletesUnlessThrows(d) == d # "throws"

\* failover goes on after client.destroy() ended as d: the call is inside
\* try/catch and its promise has a .catch, both of which only log.
FailoverCompletes(d) == TRUE

\* failover() when client.destroy() ends as d.
FailoverD(d) ==
  LET idx == NextIndex(currentSessionIndex)
      new == CreateClient(nSessions, idx)
  IN /\ destroyRequested' = destroyRequested \cup {client}
     /\ destroyResult' = [destroyResult EXCEPT ![client] = d]
     /\ IF FailoverCompletes(d)
          THEN /\ currentSessionIndex' = idx
               /\ nSessions' = nSessions + 1
               /\ client' = new
               /\ sessState' = [sessState EXCEPT ![new] = "connecting"]
               /\ sessIdentity' = [sessIdentity EXCEPT ![new] = idx]
          ELSE UNCHANGED <<currentSessionIndex, nSessions, client, sessState,
                           sessIdentity>>

\* failover() with a destroy() that succeeds.
Failover == FailoverD("ok")

\* The provider emits `ready` on instance s.  Every instance carries the
\* once('ready') listener that starts the HTTP server if it is not listening.
SessionReady(s) ==
  /\ microtasks = <<>>
  /\ s \in 1..nSessions
  /\ sessState[s] = "connecting"
  /\ sessState' = [sessState EXCEPT ![s] = "ready"]
  /\ serverListening' = TRUE
  /\ UNCHANGED <<client, currentSessionIndex, nSessions, sessIdentity,
                 destroyRequested, nDisconnects>>
  /\ UNCHANGED <<queueVars, jobVars, obsVars, microtasks>>
  /\ UNCHANGED gateVars
  /\ UNCHANGED corrVars
  /\ UNCHANGED lastReq
  /\ UNCHANGED enqueuedOn
  /\ UNCHANGED inboundLog
  /\ UNCHANGED destroyResult

\* Mutant of DisconnectedFailsOver: the handler only logs.
DisconnectedFailsOverNever(s) == FALSE

\* createClient: newClient.on('disconnected', ...) calls failover() whatever
\* instance s the event comes from.
DisconnectedFailsOver(s) == TRUE

\* The provider emits `disconnected` on instance s, which was ready; the
\* client.destroy() of the failover ends as d.
SessionDisconnectedD(s, d) ==
  /\ microtasks = <<>>
  /\ nDisconnects < MaxDisconnects
  /\ s \in 1..nSessions
  /\ sessState[s] = "ready"
  /\ nDisconnects' = nDisconnects + 1
  /\ IF DisconnectedFailsOver(s)
       THEN LET idx == NextIndex(currentSessionIndex)
                new == CreateClient(nSessions, idx)
            IN /\ destroyRequested' = destroyRequested \cup {client}
               /\ destroyResult' = [destroyResult EXCEPT ![client] = d]
               /\ IF FailoverCompletes(d)
                    THEN /\ currentSessionIndex' = idx
                         /\ nSessions' = nSessions + 1
                         /\ client' = new
                         /\ sessState' = [sessState EXCEPT ![s] = "disconnected",
                                                            ![new] = "connecting"]
                         /\ sessIdentity' = [sessIdentity EXCEPT ![new] = idx]
                    ELSE /\ sessState' = [sessState EXCEPT ![s] = "disconnected"]
                         /\ UNCHANGED <<currentSessionIndex, nSessions, client,
                                        sessIdentity>>
       ELSE /\ sessState' = [sessState EXCEPT ![s] = "disconnected"]
            /\ UNCHANGED <<destroyRequested, destroyResult, currentSessionIndex,
                           nSessions, client, sessIdentity>>
  /\ UNCHANGED serverListening
  /\ UNCHANGED <<queueVars, jobVars, obsVars, microtasks>>
  /\ UNCHANGED gateVars
  /\ UNCHANGED corrVars
  /\ UNCHANGED lastReq
  /\ UNCHANGED enqueuedOn
  /\ UNCHANGED inboundLog

\* The provider emits `disconnected` on instance s and the destroy() of the
\* failover succeeds.
SessionDisconnected(s) == SessionDisconnectedD(s, "ok")

\* ------------------------------------------------------------------ send wrapper
\* The handler that awaits the wrapper for job j: /esperar or a plain send.
HandlerKind(j) == IF waitConv[j] = 0 THEN "handler" ELSE "waitHandler"

\* The continuation of enqueueSendOperation after `await sendQueue.enqueue(...)`
\* for job j: on success it returns the value; on a rejection the catch block
\* calls failover() and rethrows the error.  Either way the continuation of the
\* HTTP handler becomes runnable with what the wrapper surfaced.
RunWrapperD(d) ==
  /\ microtasks # <<>>
  /\ Head(microtasks).type = "wrapper"
  /\ LET j == Head(microtasks).job
         oc == outcome[j]
     IN /\ microtasks' = Append(Tail(microtasks),
                                [type |-> HandlerKind(j), job |-> j,
                                 result |-> WrapperResult(oc)])
        /\ enqueuedOn' = [enqueuedOn EXCEPT ![j] = 0]
        /\ IF WrapperFailsOver(oc)
             THEN /\ FailoverD(d)
                  /\ failoverBy' = [failoverBy EXCEPT ![j] = TRUE]
             ELSE UNCHANGED <<client, currentSessionIndex, nSessions, sessState,
                              sessIdentity, destroyRequested, destroyResult,
                              failoverBy>>
  /\ UNCHANGED <<serverListening, nDisconnects>>
  /\ UNCHANGED <<queueVars, jobVars>>
  /\ UNCHANGED <<outcome, deliveries, invoked, startOrder, elapsed, callerResult,
                 faultSess>>
  /\ UNCHANGED gateVars
  /\ UNCHANGED corrVars
  /\ UNCHANGED lastReq
  /\ UNCHANGED inboundLog

\* The same continuation when the destroy() of its failover succeeds.
RunWrapper == RunWrapperD("ok")

\* The continuation of the HTTP handler after `await enqueueSendOperation(...)`:
\* it answers with the result, or with status 500 in its catch block.
RunHandler ==
  /\ microtasks # <<>>
  /\ Head(microtasks).type = "handler"
  /\ LET j == Head(microtasks).job
     IN callerResult' = [callerResult EXCEPT ![j] = Head(microtasks).result]
  /\ microtasks' = Tail(microtasks)
  /\ UNCHANGED <<queueVars, jobVars, sessVars>>
  /\ UNCHANGED <<outcome, deliveries, invoked, startOrder, elapsed, failoverBy,
                 faultSess>>
  /\ UNCHANGED gateVars
  /\ UNCHANGED corrVars
  /\ UNCHANGED lastReq
  /\ UNCHANGED enqueuedOn
  /\ UNCHANGED inboundLog
  /\ UNCHANGED destroyResult

\* ------------------------------------------------------------------ specification
Next ==
  \/ \E ms \in TimeoutChoices : Enqueue(ms)
  \/ \E j \in JobIds : TimerFire(j)
  \/ \E j \in JobIds : SendResolves(j)
  \/ \E j \in JobIds : SendRejects(j)
  \/ Tick
  \/ \E s \in SessIds : SessionReady(s)
  \/ \E s \in SessIds : SessionDisconnected(s)
  \/ RunWrapper
  \/ RunHandler

Spec == Init /\ [][Next]_vars

\* The event loop runs every runnable continuation, time passes, and a timer
\* that is due fires.  Nothing is assumed of the provider: a send may never
\* settle and a session may never become ready.
\* The program with POST /enviar-mensaje requests of any input.
ValNext ==
  \/ \E n \in NumeroLens, t \in BOOLEAN : SendRequest(n, t)
  \/ \E j \in JobIds : TimerFire(j)
  \/ \E j \in JobIds : SendResolves(j)
  \/ \E j \in JobIds : SendRejects(j)
  \/ Tick
  \/ \E s \in SessIds : SessionReady(s)
  \/ \E s \in SessIds : SessionDisconnected(s)
  \/ RunWrapper
  \/ RunHandler

ValSpec == Init /\ [][ValNext]_vars

\* The program when client.destroy() may fail in either way.
DestroyNext ==
  \/ \E ms \in TimeoutChoices : Enqueue(ms)
  \/ \E j \in JobIds : TimerFire(j)
  \/ \E j \in JobIds : SendResolves(j)
  \/ \E j \in JobIds : SendRejects(j)
  \/ Tick
  \/ \E s \in SessIds : SessionReady(s)
  \/ \E s \in SessIds, d \in DestroyOutcomes : SessionDisconnectedD(s, d)
  \/ \E d \in DestroyOutcomes : RunWrapperD(d)
  \/ RunHandler

DestroySpec == Init /\ [][DestroyNext]_vars

Fairness ==
  /\ WF_vars(RunWrapper)
  /\ WF_vars(RunHandler)
  /\ WF_vars(Tick)
  /\ \A j \in JobIds : WF_vars(TimerFire(j))

FairSpec == Spec /\ Fairness

\* ------------------------------------------------------------------ correlator
\* The chatIds whose entry in esperas is idMensaje m.
ChatsWaitingFor(m) == {c \in DOMAIN esperas : esperas[c] = m}

\* Mutant of EstaEsperando: an id counts as awaited while it has a waiter list.
EstaEsperandoHasList(m) == MapHas(resolvers, m)

\* GET /respuesta: `Array.from(esperas.entries()).some(([, v]) => v === id)`.
EstaEsperando(m) == ChatsWaitingFor(m) # {}

\* The suspended lookups in S are resumed with value v: each handler answers
\* with the reply, or with 404 'Tiempo agotado' when v is null (0).
Wake(lk, S, v) ==
  [w \in Waiters |->
     IF w \in S
       THEN IF v = 0 THEN [st |-> "timedout", m |-> lk[w].m, body |-> 0]
                     ELSE [st |-> "reply", m |-> lk[w].m, body |-> v]
       ELSE lk[w]]

\* Mutant of DeadlineCancelled: the handler leaves the timer running.
DeadlineKept(armed, m) == armed

\* The message handler: `clearTimeout(timeouts.get(idMensaje))`.
DeadlineCancelled(armed, m) == armed \ {m}

\* Mutant of ReplyTarget: the reply is attributed to the oldest id registered
\* for the conversation that still has waiters.
ReplyTargetOldest(c) ==
  IF \E m \in DOMAIN resolvers : waitConv[m] = c
    THEN CHOOSE m \in DOMAIN resolvers :
           waitConv[m] = c /\ \A k \in DOMAIN resolvers : waitConv[k] = c => m <= k
    ELSE esperas[c]

\* The message handler: `const idMensaje = esperas.get(chatId)`.
ReplyTarget(c) == esperas[c]

\* Mutant of CachedReply: the lookup ignores the cache.
CachedReplyIgnored(m) == FALSE

\* GET /respuesta: `if (respuestas.has(idMensaje))`.
CachedReply(m) == MapHas(respuestas, m)

\* POST /esperar: `esperas.set(chatId, idMensaje)`.
RegisterMapping(c, m) == MapSet(esperas, c, m)

\* Mutant of RegisterWaiterList: the registration creates no waiter list.
RegisterWaiterListSkip(m) == resolvers

\* POST /esperar: `resolvers.set(idMensaje, [])`.
RegisterWaiterList(m) == MapSet(resolvers, m, {})

\* The continuation of the /esperar handler after `await enqueueSendOperation`
\* for job j.  When the send succeeded the wait is registered under the id of
\* the sent message: esperas and resolvers are set and the 5 minute timer is
\* armed and stored; otherwise the catch block answers 500.
RunWaitHandler ==
  /\ microtasks # <<>>
  /\ Head(microtasks).type = "waitHandler"
  /\ LET j == Head(microtasks).job
         res == Head(microtasks).result
     IN /\ callerResult' = [callerResult EXCEPT ![j] = res]
        /\ IF res = ResolveOutcome
             THEN /\ esperas' = RegisterMapping(waitConv[j], j)
                  /\ resolvers' = RegisterWaiterList(j)
                  /\ timeouts' = timeouts \cup {j}
                  /\ deadlineArmed' = deadlineArmed \cup {j}
             ELSE UNCHANGED <<esperas, resolvers, timeouts, deadlineArmed>>
  /\ microtasks' = Tail(microtasks)
  /\ UNCHANGED <<waitConv, respuestas, lookups>>
  /\ UNCHANGED <<queueVars, jobVars, sessVars, gateVars>>
  /\ UNCHANGED <<outcome, deliveries, invoked, startOrder, elapsed, failoverBy,
                 faultSess>>
  /\ UNCHANGED lastReq
  /\ UNCHANGED enqueuedOn
  /\ UNCHANGED inboundLog
  /\ UNCHANGED destroyResult

\* The chatIds inbound messages come from: the conversations of the /esperar
\* requests and one for which no /esperar is ever issued.
InboundChats == 1..(MaxConvs + 1)

\* Mutant of ChatKey: the handler takes the chatId of a pending wait.
ChatKeyAnyWaiting(c) ==
  IF DOMAIN esperas # {} THEN CHOOSE k \in DOMAIN esperas : TRUE ELSE c

\* The message handler: `const chatId = message.from`.
ChatKey(c) == c

\* The message handler of instance s for a message from chatId c with body b,
\* after its log line.
MessageHandler(s, c, b) ==
  /\ microtasks = <<>>
  /\ s \in 1..nSessions
  /\ sessState[s] = "ready"
  /\ LET k == ChatKey(c)
     IN IF MapHas(esperas, k)
       THEN LET m == ReplyTarget(k)
            IN /\ respuestas' = MapSet(respuestas, m, b)
               /\ esperas' = MapDelete(esperas, k)
               /\ IF MapHas(resolvers, m)
                    THEN /\ lookups' = Wake(lookups, resolvers[m], b)
                         /\ resolvers' = MapDelete(resolvers, m)
                    ELSE UNCHANGED <<lookups, resolvers>>
               /\ IF m \in timeouts
                    THEN /\ deadlineArmed' = DeadlineCancelled(deadlineArmed, m)
                         /\ timeouts' = timeouts \ {m}
                    ELSE UNCHANGED <<deadlineArmed, timeouts>>
       ELSE UNCHANGED <<respuestas, esperas, lookups, resolvers, deadlineArmed, timeouts>>
  /\ UNCHANGED waitConv
  /\ UNCHANGED <<queueVars, jobVars, obsVars, sessVars, gateVars, microtasks>>
  /\ UNCHANGED lastReq
  /\ UNCHANGED enqueuedOn
  /\ UNCHANGED destroyResult

\* The provider emits `message` on instance s, from chatId c with body b.
Inbound(s, c, b) == MessageHandler(s, c, b) /\ UNCHANGED inboundLog

\* The same event with the handler's log line kept.
InboundLogged(s, c, b) ==
  /\ MessageHandler(s, c, b)
  /\ inboundLog' = [from |-> c, n |-> 1 - inboundLog.n]

\* Mutants of DeadlineApplies: the callback does not compare the mapping with
\* its own idMensaje; the callback never applies.
DeadlineAppliesAlways(c, m) == MapHas(esperas, c)
DeadlineAppliesNever(c, m) == FALSE

\* The test of the deadline callback of the wait on (c, m):
\* esperas.get(chatId) === idMensaje && !respuestas.has(idMensaje).
DeadlineApplies(c, m) ==
  MapHas(esperas, c) /\ esperas[c] = m /\ ~MapHas(respuestas, m)

\* The 5 minute timer of the wait registered for message m (on the chatId of
\* job m) fires.
DeadlineFire(m) ==
  /\ microtasks = <<>>
  /\ m \in deadlineArmed
  /\ deadlineArmed' = deadlineArmed \ {m}
  /\ LET c == waitConv[m]
     IN IF DeadlineApplies(c, m)
          THEN /\ esperas' = MapDelete(esperas, c)
               /\ lookups' = IF MapHas(resolvers, m) THEN Wake(lookups, resolvers[m], 0)
                             ELSE lookups
               /\ resolvers' = MapDelete(resolvers, m)
          ELSE UNCHANGED <<esperas, lookups, resolvers>>
  /\ timeouts' = timeouts \ {m}
  /\ UNCHANGED <<waitConv, respuestas>>
  /\ UNCHANGED <<queueVars, jobVars, obsVars, sessVars, gateVars, microtasks>>
  /\ UNCHANGED lastReq
  /\ UNCHANGED enqueuedOn
  /\ UNCHANGED inboundLog
  /\ UNCHANGED destroyResult

\* GET /respuesta/m, the request of waiter w: the cached reply ("cached"; a
\* lookup that was suspended and resumed with the reply is "reply"), or 404
\* 'Respuesta no encontrada' when no conversation waits for m, or the handler
\* pushes its resolve function on resolvers.get(m) and is suspended.  The push
\* throws when resolvers has no list for m.
Lookup(w, m) ==
  /\ microtasks = <<>>
  /\ serverListening
  /\ lookups[w].st = "idle"
  /\ IF CachedReply(m)
       THEN /\ lookups' = [lookups EXCEPT ![w] = [st |-> "cached", m |-> m,
                                                  body |-> respuestas[m]]]
            /\ UNCHANGED resolvers
       ELSE IF ~EstaEsperando(m)
         THEN /\ lookups' = [lookups EXCEPT ![w] = [st |-> "notfound", m |-> m, body |-> 0]]
              /\ UNCHANGED resolvers
         ELSE IF MapHas(resolvers, m)
           THEN /\ lookups' = [lookups EXCEPT ![w] = [st |-> "suspended", m |-> m, body |-> 0]]
                /\ resolvers' = [resolvers EXCEPT ![m] = @ \cup {w}]
           ELSE /\ lookups' = [lookups EXCEPT ![w] = [st |-> "error", m |-> m, body |-> 0]]
                /\ UNCHANGED resolvers
  /\ UNCHANGED <<waitConv, esperas, respuestas, timeouts, deadlineArmed>>
  /\ UNCHANGED <<queueVars, jobVars, obsVars, sessVars, gateVars, microtasks>>
  /\ UNCHANGED lastReq
  /\ UNCHANGED enqueuedOn
  /\ UNCHANGED inboundLog
  /\ UNCHANGED destroyResult

\* The program with /esperar requests, inbound messages and /respuesta lookups.
CorrNext ==
  \/ \E c \in Convs : EnqueueWait(c)
  \/ \E j \in JobIds : TimerFire(j)
  \/ \E j \in JobIds : SendResolves(j)
  \/ \E j \in JobIds : SendRejects(j)
  \/ Tick
  \/ \E s \in SessIds : SessionReady(s)
  \/ \E s \in SessIds : SessionDisconnected(s)
  \/ RunWrapper
  \/ RunWaitHandler
  \/ \E s \in SessIds, c \in Convs, b \in Bodies : Inbound(s, c, b)
  \/ \E m \in MsgIds : DeadlineFire(m)
  \/ \E w \in Waiters, m \in MsgIds : Lookup(w, m)

CorrSpec == Init /\ [][CorrNext]_vars

\* The correlator when the provider resolves every send before its time budget
\* ends and no session disconnects, with the log of the inbound messages,
\* which also come from a chatId that never asked to wait.
InboundNext ==
  \/ \E c \in Convs : EnqueueWait(c)
  \/ \E j \in JobIds : SendResolves(j)
  \/ \E s \in SessIds : SessionReady(s)
  \/ RunWrapper
  \/ RunWaitHandler
  \/ \E s \in SessIds, c \in InboundChats, b \in Bodies : InboundLogged(s, c, b)
  \/ \E m \in MsgIds : DeadlineFire(m)
  \/ \E w \in Waiters, m \in MsgIds : Lookup(w, m)

InboundSpec == Init /\ [][InboundNext]_vars

\* As Fairness, and a deadline timer that is armed fires.
CorrFairness ==
  /\ WF_vars(RunWrapper)
  /\ WF_vars(RunWaitHandler)
  /\ WF_vars(Tick)
  /\ \A j \in JobIds : WF_vars(TimerFire(j))
  /\ \A m \in MsgIds : WF_vars(DeadlineFire(m))

CorrFairSpec == CorrSpec /\ CorrFairness

\* ------------------------------------------------------------------ readiness-gated variant
\* src/unnamed/part_000 (main.queue.js): a FIFO sendQueue without per-job
\* timer whose loop awaits waitForClientReady() before each task, handlers
\* that call failover() in their catch block, and a server that listens from
\* the start.  sendQueue and processingQueue are held in `queue` and
\* `processing`; the per-job timer state of main.js is not used.

\* waitForClientReady: `if (client && clientReady) return Promise.resolve()`.
GatePasses == clientReady

\* waitForClientReady: `client?.once('ready', onReady)`: the listener is put on
\* the instance that is current when the call is made.
GateListensOn == client

\* The ready handler of instance s: clientReady is set when the identity the
\* instance was created with is sessionIds[currentSessionIndex].
ReadySetsFlag(s) == sessIdentity[s] = currentSessionIndex

\* The outcome of a job whose gate call timed out.
GateOutcome == "timeout"

GateInit ==
  /\ queue = <<>>
  /\ processing = FALSE
  /\ nJobs = 0
  /\ timeoutMs = [j \in JobIds |-> 0]
  /\ finished = [j \in JobIds |-> FALSE]
  /\ timerArmed = {}
  /\ remaining = [j \in JobIds |-> 0]
  /\ inflight = {}
  /\ sentOn = [j \in JobIds |-> 0]
  /\ outcome = [j \in JobIds |-> "none"]
  /\ deliveries = [j \in JobIds |-> 0]
  /\ invoked = [j \in JobIds |-> 0]
  /\ startOrder = <<>>
  /\ elapsed = [j \in JobIds |-> 0]
  /\ callerResult = [j \in JobIds |-> "none"]
  /\ failoverBy = [j \in JobIds |-> FALSE]
  /\ faultSess = [j \in JobIds |-> 0]
  /\ client = 1
  /\ currentSessionIndex = 0
  /\ nSessions = 1
  /\ sessState = [s \in SessIds |-> IF s = 1 THEN "connecting" ELSE "none"]
  /\ sessIdentity = [s \in SessIds |-> 0]
  /\ destroyRequested = {}
  /\ destroyResult = [s \in SessIds |-> "none"]
  /\ serverListening = TRUE
  /\ nDisconnects = 0
  /\ clientReady = FALSE
  /\ gateJob = 0
  /\ gateOn = 0
  /\ gateRemaining = 0
  /\ waitConv = [j \in JobIds |-> 0]
  /\ esperas = <<>>
  /\ respuestas = <<>>
  /\ resolvers = <<>>
  /\ timeouts = {}
  /\ deadlineArmed = {}
  /\ lookups = [w \in Waiters |-> IdleLookup]
  /\ lastReq = NoRequest
  /\ enqueuedOn = [j \in JobIds |-> 0]
  /\ inboundLog = NoInbound
  /\ microtasks = <<>>

\* The variables of main.js's per-job timer and wrapper, unused here.
gateUnused == <<timeoutMs, finished, timerArmed, remaining, elapsed, faultSess,
                serverListening>>

\* item.taskFn() for job j: the task calls client.sendMessage on the session
\* that is current at that moment.  fl is inflight as the caller leaves it.
GateRunTask(j, fl) ==
  /\ inflight' = fl \cup {j}
  /\ sentOn' = [k \in JobIds |->
                  IF k = j THEN client ELSE IF k \in fl THEN sentOn[k] ELSE 0]
  /\ invoked' = [invoked EXCEPT ![j] = @ + 1]
  /\ startOrder' = Append(startOrder, j)

GateNoTask(fl) ==
  /\ inflight' = fl
  /\ sentOn' = [k \in JobIds |-> IF k \in fl THEN sentOn[k] ELSE 0]
  /\ UNCHANGED <<invoked, startOrder>>

\* processQueue from its `while` test to its next suspension, finding the queue
\* q: with no item the loop ends; otherwise the head is shifted and
\* waitForClientReady() is called.  When the gate passes, the continuation that
\* calls the task runs before any continuation of an HTTP handler; otherwise
\* the call registers its listener, arms its timer and the loop is suspended.
GateLoop(q, fl) ==
  IF q = <<>>
    THEN /\ queue' = q
         /\ processing' = FALSE
         /\ gateJob' = 0 /\ gateOn' = 0 /\ gateRemaining' = 0
         /\ GateNoTask(fl)
    ELSE /\ queue' = Shift(q).rest
         /\ processing' = TRUE
         /\ IF GatePasses
              THEN /\ gateJob' = 0 /\ gateOn' = 0 /\ gateRemaining' = 0
                   /\ GateRunTask(Shift(q).job, fl)
              ELSE /\ gateJob' = Shift(q).job
                   /\ gateOn' = GateListensOn
                   /\ gateRemaining' = MsGate
                   /\ GateNoTask(fl)

\* item.resolve / item.reject for job j with outcome oc: the continuation of
\* the HTTP handler becomes runnable.
GateSettle(j, oc) ==
  /\ outcome' = [outcome EXCEPT ![j] = oc]
  /\ deliveries' = [deliveries EXCEPT ![j] = @ + 1]
  /\ microtasks' = Append(microtasks, [type |-> "sendHandler", job |-> j, result |-> oc])

\* An HTTP send request with valid input: enqueue(taskFn) pushes the item and
\* calls processQueue().
GateEnqueue ==
  /\ microtasks = <<>>
  /\ nJobs < MaxJobs
  /\ nJobs' = nJobs + 1
  /\ IF processing
       THEN /\ queue' = Append(queue, nJobs + 1)
            /\ UNCHANGED <<processing, gateJob, gateOn, gateRemaining>>
            /\ GateNoTask(inflight)
       ELSE GateLoop(Append(queue, nJobs + 1), inflight)
  /\ UNCHANGED <<outcome, deliveries, callerResult, failoverBy, clientReady>>
  /\ UNCHANGED <<sessVars, gateUnused, microtasks>>
  /\ UNCHANGED corrVars
  /\ UNCHANGED lastReq
  /\ UNCHANGED enqueuedOn
  /\ UNCHANGED inboundLog
  /\ UNCHANGED destroyResult

\* The provider settles the sendMessage call of job j.
GateSendSettles(j, ok) ==
  /\ microtasks = <<>>
  /\ j \in inflight
  /\ GateSettle(j, IF ok THEN ResolveOutcome ELSE RejectOutcome)
  /\ GateLoop(queue, inflight \ {j})
  /\ UNCHANGED <<nJobs, callerResult, failoverBy, clientReady>>
  /\ UNCHANGED <<sessVars, gateUnused>>
  /\ UNCHANGED corrVars
  /\ UNCHANGED lastReq
  /\ UNCHANGED enqueuedOn
  /\ UNCHANGED inboundLog
  /\ UNCHANGED destroyResult

GateSendResolves(j) == GateSendSettles(j, TRUE)
GateSendRejects(j) == GateSendSettles(j, FALSE)

\* onTimeout of the pending waitForClientReady() call: the call rejects, the
\* loop rejects the item and goes on with the next one.
GateTimeout ==
  /\ microtasks = <<>>
  /\ gateJob # 0
  /\ gateRemaining = 0
  /\ GateSettle(gateJob, GateOutcome)
  /\ GateLoop(queue, inflight)
  /\ UNCHANGED <<nJobs, callerResult, failoverBy, clientReady>>
  /\ UNCHANGED <<sessVars, gateUnused>>
  /\ UNCHANGED corrVars
  /\ UNCHANGED lastReq
  /\ UNCHANGED enqueuedOn
  /\ UNCHANGED inboundLog
  /\ UNCHANGED destroyResult

\* One tick of the bounded wait passes.
GateTick ==
  /\ microtasks = <<>>
  /\ gateJob # 0
  /\ gateRemaining > 0
  /\ gateRemaining' = gateRemaining - 1
  /\ UNCHANGED <<clientReady, gateJob, gateOn>>
  /\ UNCHANGED <<queueVars, jobVars, obsVars, sessVars, microtasks>>
  /\ UNCHANGED corrVars
  /\ UNCHANGED lastReq
  /\ UNCHANGED enqueuedOn
  /\ UNCHANGED inboundLog
  /\ UNCHANGED destroyResult

\* The provider emits `ready` on instance s: the handler of createClient sets
\* clientReady, then the onReady listener of a pending gate call registered on
\* s clears the timer and resolves, and the loop calls the task.
GateSessionReady(s) ==
  /\ microtasks = <<>>
  /\ s \in 1..nSessions
  /\ sessState[s] = "connecting"
  /\ sessState' = [sessState EXCEPT ![s] = "ready"]
  /\ clientReady' = (clientReady \/ ReadySetsFlag(s))
  /\ IF gateJob # 0 /\ gateOn = s
       THEN /\ gateJob' = 0 /\ gateOn' = 0 /\ gateRemaining' = 0
            /\ GateRunTask(gateJob, inflight)
       ELSE /\ UNCHANGED <<gateJob, gateOn, gateRemaining>>
            /\ GateNoTask(inflight)
  /\ UNCHANGED <<client, currentSessionIndex, nSessions, sessIdentity,
                 destroyRequested, serverListening, nDisconnects>>
  /\ UNCHANGED <<queueVars, nJobs, timeoutMs, finished, timerArmed, remaining>>
  /\ UNCHANGED <<outcome, deliveries, elapsed, callerResult, failoverBy, faultSess,
                 microtasks>>
  /\ UNCHANGED corrVars
  /\ UNCHANGED lastReq
  /\ UNCHANGED enqueuedOn
  /\ UNCHANGED inboundLog
  /\ UNCHANGED destroyResult

\* failover() of part_000: as in main.js, and clientReady is reset.
GateFailover ==
  /\ clientReady' = FALSE
  /\ Failover

\* The provider emits `disconnected` on instance s, which was ready: the
\* handler resets clientReady and calls failover().
GateSessionDisconnected(s) ==
  /\ microtasks = <<>>
  /\ nDisconnects < MaxDisconnects
  /\ s \in 1..nSessions
  /\ sessState[s] = "ready"
  /\ nDisconnects' = nDisconnects + 1
  /\ clientReady' = FALSE
  /\ destroyRequested' = destroyRequested \cup {client}
  /\ destroyResult' = [destroyResult EXCEPT ![client] = "ok"]
  /\ currentSessionIndex' = NextIndex(currentSessionIndex)
  /\ nSessions' = nSessions + 1
  /\ client' = nSessions + 1
  /\ sessState' = [sessState EXCEPT ![s] = "disconnected", ![nSessions + 1] = "connecting"]
  /\ sessIdentity' = [sessIdentity EXCEPT ![nSessions + 1] = NextIndex(currentSessionIndex)]
  /\ UNCHANGED <<serverListening, gateJob, gateOn, gateRemaining>>
  /\ UNCHANGED <<queueVars, jobVars, obsVars, microtasks>>
  /\ UNCHANGED corrVars
  /\ UNCHANGED lastReq
  /\ UNCHANGED enqueuedOn
  /\ UNCHANGED inboundLog

\* The continuation of a send handler after `await enqueue(...)`: it answers
\* with the result; its catch block calls failover() and answers 500.
GateRunHandler ==
  /\ microtasks # <<>>
  /\ Head(microtasks).type = "sendHandler"
  /\ LET j == Head(microtasks).job
         res == Head(microtasks).result
     IN /\ callerResult' = [callerResult EXCEPT ![j] = res]
        /\ IF res # ResolveOutcome
             THEN /\ GateFailover
                  /\ failoverBy' = [failoverBy EXCEPT ![j] = TRUE]
             ELSE UNCHANGED <<client, currentSessionIndex, nSessions, sessState,
                              sessIdentity, destroyRequested, destroyResult,
                              failoverBy, clientReady>>
  /\ microtasks' = Tail(microtasks)
  /\ UNCHANGED <<serverListening, nDisconnects, gateJob, gateOn, gateRemaining>>
  /\ UNCHANGED <<queueVars, jobVars>>
  /\ UNCHANGED <<outcome, deliveries, invoked, startOrder, elapsed, faultSess>>
  /\ UNCHANGED corrVars
  /\ UNCHANGED lastReq
  /\ UNCHANGED enqueuedOn
  /\ UNCHANGED inboundLog

GateNext ==
  \/ GateEnqueue
  \/ \E j \in JobIds : GateSendResolves(j)
  \/ \E j \in JobIds : GateSendRejects(j)
  \/ GateTimeout
  \/ GateTick
  \/ \E s \in SessIds : GateSessionReady(s)
  \/ \E s \in SessIds : GateSessionDisconnected(s)
  \/ GateRunHandler

GateSpec == GateInit /\ [][GateNext]_vars

\* The event loop runs every runnable continuation, time passes while a gate
\* call waits, and its timer fires when due.
GateFairness ==
  /\ WF_vars(GateRunHandler)
  /\ WF_vars(GateTick)
  /\ WF_vars(GateTimeout)

GateFairSpec == GateSpec /\ GateFairness

\* ------------------------------------------------------------------ claims
\* A step in which the queue settles job j (its enqueue() promise gets oc).
Settles(j, oc) == outcome[j] = "none" /\ outcome'[j] = oc

\* C1: job actions are started in exactly the order the jobs were enqueued, and
\* the action of job k+1 is not started before the queue has settled job k.
C1_FifoOneAtATime ==
  /\ \A i \in 1..Len(startOrder) : startOrder[i] = i
  /\ \A k \in JobIds : (k + 1 \in JobIds /\ invoked[k + 1] > 0) => outcome[k] # "none"

\* Jobs 2 and 3 waited in the queue while job 1 ran and failed; job 2 runs now
\* and job 3 still waits.
C1_Witness ==
  /\ startOrder = <<1, 2>>
  /\ queue = <<3>>
  /\ faultSess[3] # 0
  /\ outcome[1] = "fault"

\* C2 as stated: no two provider sends submitted through the queue are in
\* flight at the same time, whatever the outcome of earlier jobs.
C2_AtMostOneSendInFlight == Cardinality(inflight) <= 1

\* C2 as amended: no two sends of jobs that the queue has not settled are in
\* flight at the same time; every other send in flight belongs to a job that
\* timed out and was abandoned, not cancelled.
C2_AtMostOneUnsettledSend ==
  /\ Cardinality({j \in inflight : outcome[j] = "none"}) <= 1
  /\ \A j \in inflight : outcome[j] \in {"none", "timeout"}

\* The send of a timed-out job is still in flight while the send of a later
\* job is in flight too.
C2_Witness ==
  \E i, j \in inflight : i < j /\ outcome[i] = "timeout" /\ outcome[j] = "none"

\* C3: a job delivers one outcome and delivers it once; when the timer wins the
\* outcome is the Timeout failure, and the later settling of the abandoned
\* action changes no job's outcome and nothing any caller was told.
C3_Inv ==
  \A j \in JobIds :
    /\ deliveries[j] <= 1
    /\ (outcome[j] # "none") <=> (deliveries[j] = 1)
    /\ (j \in inflight /\ outcome[j] # "none") => outcome[j] = "timeout"
    /\ callerResult[j] # "none" => callerResult[j] = outcome[j]

C3_Step ==
  /\ \A j \in JobIds :
       outcome[j] # "none" => outcome'[j] = outcome[j] /\ deliveries'[j] = deliveries[j]
  /\ \A j \in JobIds :
       (j \in inflight /\ outcome[j] = "timeout" /\ j \notin inflight')
         => /\ outcome' = outcome
            /\ deliveries' = deliveries
            /\ callerResult' = callerResult
            /\ microtasks' = microtasks

C3_ExactlyOneOutcome == [](C3_Inv) /\ [][C3_Step]_vars

\* A job timed out, its abandoned send settled afterwards, and a later job
\* succeeded.
C3_Witness ==
  \E i, j \in JobIds :
    /\ i < j
    /\ outcome[i] = "timeout" /\ callerResult[i] = "timeout" /\ i \notin inflight
    /\ outcome[j] = "success" /\ callerResult[j] = "success"

\* C4: a job whose action has not settled is failed with Timeout when exactly
\* job.timeoutMs ticks have passed since it started, and the job at the head of
\* the queue is started in that same step.
C4_Inv == \A j \in JobIds : Running(j) => elapsed[j] <= timeoutMs[j]

C4_Step ==
  \A j \in JobIds :
    Settles(j, "timeout")
      => /\ elapsed[j] = timeoutMs[j]
         /\ queue # <<>> => /\ invoked'[Head(queue)] = 1
                            /\ Head(queue) \in inflight'
                            /\ elapsed'[Head(queue)] = 0
                            /\ queue' = Tail(queue)

C4_TimeoutAfterBudget == [](C4_Inv) /\ [][C4_Step]_vars

\* A job with the long budget timed out while its send never settled, and the
\* job queued behind it was started in the step of the timeout (the wrapper of
\* the timed-out job has not run yet).
C4_Witness ==
  \E j \in JobIds :
    /\ j + 1 \in JobIds
    /\ outcome[j] = "timeout" /\ j \in inflight
    /\ microtasks # <<>> /\ Head(microtasks).type = "wrapper" /\ Head(microtasks).job = j
    /\ Running(j + 1) /\ elapsed[j + 1] = 0 /\ timeoutMs[j + 1] = MsLong

\* C5: under the event loop's scheduling (continuations run, time passes, due
\* timers fire) every enqueued job gets an outcome, whatever the provider does.
C5_EveryJobSettles ==
  \A j \in JobIds : (nJobs >= j) ~> (outcome[j] # "none")

\* Two jobs whose sends never settled both got their outcome.
C5_Witness ==
  /\ {1, 2} \subseteq inflight
  /\ outcome[1] = "timeout"
  /\ outcome[2] = "timeout"

\* C6: a failing job does not stop the loop: the step that fails a job takes
\* the head of the queue and starts it, a waiting job always has a loop that
\* is running a job, and every waiting job is executed in the end.
C6_Inv == queue # <<>> => processing /\ \E i \in JobIds : Running(i) /\ i \in timerArmed

C6_Step ==
  \A i \in JobIds :
    ((Settles(i, "fault") \/ Settles(i, "timeout")) /\ queue # <<>>)
      => /\ invoked'[Head(queue)] = invoked[Head(queue)] + 1
         /\ queue' = Tail(queue)
         /\ processing'

C6_FailureKeepsLoopRunning ==
  /\ [](C6_Inv)
  /\ [][C6_Step]_vars
  /\ \A j \in JobIds : (j \in Range(queue)) ~> (invoked[j] > 0)

\* Job 1 failed with a fault and job 2 timed out; job 3, which waited behind
\* both, was executed.
C6_Witness ==
  /\ outcome[1] = "fault"
  /\ outcome[2] = "timeout"
  /\ faultSess[3] # 0
  /\ invoked[3] = 1

\* C7: the action of a job is invoked at most once.
C7_InvokedAtMostOnce == \A j \in JobIds : invoked[j] <= 1

\* One job failed with a fault, another timed out, both triggered a failover
\* and both callers were answered; each action ran once.
C7_Witness ==
  \E i, j \in JobIds :
    /\ callerResult[i] = "fault" /\ failoverBy[i] /\ invoked[i] = 1
    /\ callerResult[j] = "timeout" /\ failoverBy[j] /\ invoked[j] = 1

\* The continuation of the HTTP handler of job j is runnable.
HandlerPending(j) ==
  \E i \in 1..Len(microtasks) : microtasks[i].type = "handler" /\ microtasks[i].job = j

\* C8: when a job's action throws, the wrapper runs failover and then surfaces
\* the error it caught, unchanged: the caller never gets a success, and it gets
\* the failure only after failover replaced the session.
C8_Inv ==
  \A j \in JobIds :
    outcome[j] = "fault"
      => /\ callerResult[j] \in {"none", "fault"}
         /\ callerResult[j] = "fault" => failoverBy[j]
         /\ \A i \in 1..Len(microtasks) :
              (microtasks[i].type = "handler" /\ microtasks[i].job = j)
                => failoverBy[j] /\ microtasks[i].result = "fault"

C8_Step ==
  \A j \in JobIds :
    (~failoverBy[j] /\ failoverBy'[j])
      => /\ client' # client
         /\ client' = nSessions'
         /\ sessState'[client'] = "connecting"
         /\ client \in destroyRequested'
         /\ currentSessionIndex' = (currentSessionIndex + 1) % PoolSize
         /\ callerResult'[j] = "none"
         /\ HandlerPending(j)'

C8_FaultFailsOverThenSurfaces == [](C8_Inv) /\ [][C8_Step]_vars

\* The caller of a job whose send was rejected by the provider has been told.
C8_Witness ==
  \E j \in JobIds : outcome[j] = "fault" /\ callerResult[j] = "fault" /\ failoverBy[j]

\* The step of enqueueSendOperation's continuation for job j.
WrapperStep(j) ==
  /\ microtasks # <<>>
  /\ Head(microtasks).type = "wrapper"
  /\ Head(microtasks).job = j
  /\ microtasks' # microtasks

\* C9 as stated: a job that fails with Timeout is reported as a failure and
\* causes no failover: the current session and the index stay as they are.
C9_TimeoutCausesNoFailover ==
  [][\A j \in JobIds :
       (WrapperStep(j) /\ outcome[j] = "timeout")
         => /\ client' = client
            /\ currentSessionIndex' = currentSessionIndex]_vars

\* C9 as amended: a job that fails with the per-job Timeout is reported as a
\* failure, and the wrapper runs failover for it as for any other rejection:
\* a new session becomes current and the index advances by one.
C9_Inv ==
  \A j \in JobIds :
    outcome[j] = "timeout"
      => /\ callerResult[j] \in {"none", "timeout"}
         /\ callerResult[j] = "timeout" => failoverBy[j]

C9_Step ==
  \A j \in JobIds :
    (WrapperStep(j) /\ outcome[j] = "timeout")
      => /\ client' = nSessions + 1
         /\ client \in destroyRequested'
         /\ currentSessionIndex' = (currentSessionIndex + 1) % PoolSize
         /\ HandlerPending(j)'

C9_TimeoutFailsOver == [](C9_Inv) /\ [][C9_Step]_vars

\* The caller of a timed-out job has been told, and the session was replaced.
C9_Witness ==
  \E j \in JobIds : outcome[j] = "timeout" /\ callerResult[j] = "timeout" /\ failoverBy[j]

\* C10: a job that waited behind a job failed by a provider fault has its send
\* issued only on the replacement session, once that session is ready.
C10_LaterSendAfterReplacementReady ==
  [][\A j \in JobIds :
       (j \notin inflight /\ j \in inflight' /\ faultSess'[j] # 0)
         => /\ client # faultSess'[j]
            /\ sessState[client] = "ready"]_vars

\* C11: a queued job's provider send is issued only while the session that is
\* current at that moment has reached ready.
C11_SendOnlyOnReadySession ==
  [][\A j \in JobIds :
       (j \notin inflight /\ j \in inflight') => sessState[client] = "ready"]_vars

\* C13: no send started by a queued job is in flight on a session for which
\* destroy has been requested.
C13_NoSendOnDestroyedSession ==
  \A j \in inflight : sentOn[j] \notin destroyRequested

\* C14: one session instance is current and it is the only instance on which
\* destroy was not requested; its identity is sessionIds[currentSessionIndex]
\* and the index is within the pool.
C14_OneCurrentSession ==
  /\ client \in 1..nSessions
  /\ client \notin destroyRequested
  /\ \A s \in 1..nSessions : s # client => s \in destroyRequested
  /\ sessState[client] \in {"connecting", "ready"}
  /\ sessIdentity[client] = currentSessionIndex
  /\ currentSessionIndex \in 0..(PoolSize - 1)

\* Failovers made the index wrap around: the current instance has the identity
\* of the first one.
C14_Witness ==
  /\ nSessions >= PoolSize + 1
  /\ client = PoolSize + 1
  /\ currentSessionIndex = 0
  /\ sessIdentity[client] = sessIdentity[1]

\* C15: the step that handles the disconnected event of the current session
\* replaces it: destroy is requested for it and a new instance is current.  The
\* current session is never one that was disconnected.
C15_Inv == sessState[client] # "disconnected"

C15_Step ==
  \A s \in SessIds :
    (s = client /\ sessState[s] = "ready" /\ sessState'[s] = "disconnected")
      => /\ client' # s
         /\ client' = nSessions + 1
         /\ sessState'[client'] = "connecting"
         /\ s \in destroyRequested'

C15_DisconnectLeadsToFailover == [](C15_Inv) /\ [][C15_Step]_vars

\* The session that was current was disconnected and the instance created by
\* that failover is current.
C15_Witness ==
  \E s \in SessIds :
    /\ sessState[s] = "disconnected"
    /\ client = s + 1
    /\ s \in destroyRequested

\* C12: a readiness-gate call that is pending when the session that is current
\* reaches ready resolves in that step, whatever failovers happened during the
\* wait, and the job that was waiting runs its task.
C12_GateResolvesWhenCurrentReady ==
  [][(gateJob # 0 /\ sessState[client] # "ready" /\ sessState'[client'] = "ready")
       => (gateJob' = 0 /\ gateJob \in inflight')]_vars

\* A pending gate call ends: it does not stay pending forever.
GateCallEnds == \A j \in JobIds : (gateJob = j) ~> (gateJob # j)

\* The lookups suspended on message id m.
SuspendedOn(m) == {w \in Waiters : lookups[w].st = "suspended" /\ lookups[w].m = m}

\* C16: a step that replaces the current session changes neither the send
\* queue nor the jobs in it nor any part of the correlator, and the jobs that
\* wait in the queue still have a loop that runs them and are executed.
C16_Step ==
  client' # client
    => /\ queue' = queue
       /\ processing' = processing
       /\ UNCHANGED <<nJobs, timeoutMs, timerArmed, remaining, inflight>>
       /\ UNCHANGED <<esperas, respuestas, resolvers, timeouts, deadlineArmed, lookups>>

C16_Inv == queue # <<>> => processing /\ \E i \in JobIds : Running(i) /\ i \in timerArmed

C16_FailoverKeepsQueuedWork ==
  /\ [][C16_Step]_vars
  /\ [](C16_Inv)
  /\ \A j \in JobIds : (j \in Range(queue)) ~> (invoked[j] > 0)

\* The session that was current was disconnected and replaced while job 3
\* waited in the queue behind job 2 and a lookup was suspended on the wait
\* registered by job 1, whose timer is armed.
C16_Witness ==
  /\ \E s \in SessIds : sessState[s] = "disconnected" /\ client = s + 1
  /\ sessState[client] = "connecting"
  /\ queue = <<3>>
  /\ Running(2)
  /\ MapHas(esperas, 1) /\ esperas[1] = 1
  /\ SuspendedOn(1) # {}
  /\ 1 \in deadlineArmed

\* C17: the step in which an inbound message is taken as the reply of m (it is
\* cached under m, or a lookup suspended on m is answered with it) caches it
\* under m, removes the mapping of the conversation, answers every lookup
\* suspended on m with that reply and cancels m's timer.
C17_Step ==
  \A m \in MsgIds :
    (\/ (~MapHas(respuestas, m) /\ MapHas(respuestas', m))
     \/ \E w \in SuspendedOn(m) : lookups'[w].st = "reply")
      => /\ MapHas(respuestas', m)
         /\ \A c \in DOMAIN esperas : esperas[c] = m => ~MapHas(esperas', c)
         /\ \A w \in SuspendedOn(m) :
              lookups'[w] = [st |-> "reply", m |-> m, body |-> respuestas'[m]]
         /\ ~MapHas(resolvers', m)
         /\ m \notin deadlineArmed'
         /\ m \notin timeouts'

C17_ReplyWakesAllAndCancels == [][C17_Step]_vars

\* Two lookups were suspended on the same id and both were answered with the
\* reply that is cached for it; its timer is cancelled and the mapping is gone.
C17_Witness ==
  \E m \in MsgIds :
    /\ MapHas(respuestas, m)
    /\ \A w \in Waiters : lookups[w] = [st |-> "reply", m |-> m, body |-> respuestas[m]]
    /\ callerResult[m] = "success"
    /\ m \notin deadlineArmed
    /\ ~EstaEsperando(m)
    /\ nJobs = m

\* C18: a cached reply stays and keeps its value in every step, and a lookup of
\* an id that has a cached reply is answered with it in the step of the
\* request, without a waiter being registered.
C18_Step ==
  /\ \A m \in DOMAIN respuestas :
       MapHas(respuestas', m) /\ respuestas'[m] = respuestas[m]
  /\ \A w \in Waiters :
       (lookups[w].st = "idle" /\ lookups'[w].st # "idle" /\ MapHas(respuestas, lookups'[w].m))
         => /\ lookups'[w].st = "cached"
            /\ lookups'[w].body = respuestas[lookups'[w].m]
            /\ resolvers' = resolvers

C18_CachedReplyIsPermanent == [][C18_Step]_vars

\* Message 1 got its reply, which answered a suspended lookup; a later wait on
\* the same conversation got another reply and the session was replaced; a
\* lookup of message 1 is still answered with the reply cached for it.
C18_Witness ==
  /\ MapHas(respuestas, 1) /\ MapHas(respuestas, 2)
  /\ respuestas[1] # respuestas[2]
  /\ waitConv[1] = waitConv[2]
  /\ lookups[1] = [st |-> "reply", m |-> 1, body |-> respuestas[1]]
  /\ lookups[2] = [st |-> "cached", m |-> 1, body |-> respuestas[1]]
  /\ sessState[client] = "connecting"

\* C19: a lookup of an id that has no cached reply and is not the value of any
\* conversation mapping is answered NotFound in the step of the request, and
\* no waiter is registered.
C19_Step ==
  \A w \in Waiters :
    (/\ lookups[w].st = "idle" /\ lookups'[w].st # "idle"
     /\ ~MapHas(respuestas, lookups'[w].m)
     /\ \A c \in DOMAIN esperas : esperas[c] # lookups'[w].m)
      => /\ lookups'[w].st = "notfound"
         /\ resolvers' = resolvers

C19_UnknownIdIsNotFound == [][C19_Step]_vars

\* A lookup of an id that still has a waiter list, though its conversation
\* mapping was taken over by a later wait, was answered NotFound.
C19_Witness ==
  \E w \in Waiters :
    /\ lookups[w].st = "notfound"
    /\ MapHas(resolvers, lookups[w].m)
    /\ ~MapHas(respuestas, lookups[w].m)

\* C20: an inbound message is cached under the most recent id registered for
\* its conversation; an id whose mapping was taken over by a later wait (it
\* has a waiter list but no conversation maps to it) gets no cached reply and
\* its suspended lookups are not answered by that message.
C20_Step ==
  /\ \A m \in MsgIds :
       (~MapHas(respuestas, m) /\ MapHas(respuestas', m))
         => \A k \in DOMAIN resolvers : waitConv[k] = waitConv[m] => k <= m
  /\ \A m \in DOMAIN resolvers :
       (\A c \in DOMAIN esperas : esperas[c] # m)
         => /\ ~MapHas(respuestas', m)
            /\ \A w \in SuspendedOn(m) : lookups'[w].st # "reply"

C20_ReplyGoesToLatestWait == [][C20_Step]_vars

\* A lookup was suspended on message 1, a second wait was registered on the
\* same conversation, and the reply that came next is cached for message 2
\* and answered a lookup of 2, while the lookup of 1 is still suspended.
C20_Witness ==
  /\ waitConv[1] = waitConv[2]
  /\ MapHas(respuestas, 2)
  /\ ~MapHas(respuestas, 1)
  /\ \E w \in SuspendedOn(1) : w \in resolvers[1]
  /\ \E w \in Waiters : lookups[w] = [st |-> "reply", m |-> 2, body |-> respuestas[2]]

\* The /esperar handler of job m registered the wait for message id m.
Registered(m) == waitConv[m] # 0 /\ callerResult[m] = "success"

\* The timer of the wait for m fired and no reply is cached for m (the message
\* handler cancels the timer only in the step that caches the reply).
Expired(m) == Registered(m) /\ m \notin deadlineArmed /\ ~MapHas(respuestas, m)

\* C21: a lookup is suspended on m only while m's deadline timer has not fired:
\* by the firing of the timer at the latest every waiter of m has been woken.
C21_NoWaiterAfterDeadline ==
  \A w \in Waiters : lookups[w].st = "suspended" => lookups[w].m \in deadlineArmed

\* C22: a lookup of an id whose deadline fired with no reply is answered with
\* the "timed out" result.
C22_LookupAfterDeadlineTimedOut ==
  [][\A w \in Waiters :
       (lookups[w].st = "idle" /\ lookups'[w].st # "idle" /\ Expired(lookups'[w].m))
         => lookups'[w].st = "timedout"]_vars

\* C23: suspended lookups do not hold the send queue.  A step that suspends or
\* resumes a lookup changes nothing of the queue; while lookups are suspended
\* a waiting job always has a loop that is running a job under its timer; the
\* step in which the send of a job settles gives the job its outcome and
\* starts the next job, whether or not a reply has arrived; and every
\* enqueued job gets its outcome.
C23_Inv ==
  (\E w \in Waiters : lookups[w].st = "suspended")
    => (queue # <<>> => processing /\ \E i \in JobIds : Running(i) /\ i \in timerArmed)

C23_Step ==
  /\ lookups' # lookups
       => /\ UNCHANGED <<queue, processing, nJobs, timerArmed, remaining, inflight>>
          /\ UNCHANGED <<outcome, invoked, callerResult, microtasks>>
  /\ \A j \in JobIds :
       (j \in inflight /\ j \notin inflight' /\ outcome[j] = "none")
         => /\ outcome'[j] \in {"success", "fault"}
            /\ ~MapHas(respuestas', j)
            /\ queue # <<>> => /\ Head(queue) \in inflight'
                               /\ queue' = Tail(queue)

C23_WaitersDoNotBlockQueue ==
  /\ [](C23_Inv)
  /\ [][C23_Step]_vars
  /\ \A j \in JobIds : (nJobs >= j) ~> (outcome[j] # "none")

\* A lookup was suspended on message 1 before the wait of job 2 took over the
\* conversation; it is still suspended, with no reply for 1, while jobs 2 and
\* 3 were executed and their callers answered.
C23_Witness ==
  /\ \E w \in Waiters : lookups[w].st = "suspended" /\ lookups[w].m = 1
  /\ ~MapHas(respuestas, 1)
  /\ 1 \in deadlineArmed
  /\ callerResult[2] = "success"
  /\ callerResult[3] = "success"

\* C24: a POST /enviar-mensaje whose fields do not pass validation (a field is
\* missing, or the number does not have 13 characters) is answered in the step
\* of the request with 400 or 404; no job is enqueued or started and the
\* session is not replaced.
C24_Step ==
  (/\ lastReq' # lastReq
   /\ ~(lastReq'.numero = NumeroLength /\ lastReq'.texto))
    => /\ lastReq'.status \in {400, 404}
       /\ UNCHANGED <<queue, processing, nJobs, timerArmed, inflight, invoked>>
       /\ UNCHANGED <<client, currentSessionIndex, nSessions, destroyRequested>>
       /\ UNCHANGED microtasks

C24_InvalidRequestChangesNothing == [][C24_Step]_vars

\* A request with a 12 character number was answered 404 while one job was
\* being executed and another one waited in the queue.
C24_Witness ==
  /\ lastReq = [numero |-> NumeroLength - 1, texto |-> TRUE, status |-> 404]
  /\ queue # <<>>
  /\ inflight # {}

\* C25: each failover advances currentSessionIndex by exactly one modulo the
\* pool size and creates, under the identity of the new index, the session it
\* starts to initialize; after k failovers from index 0 the index is
\* k mod PoolSize (every instance but the first is created by a failover).
C25_Inv ==
  /\ currentSessionIndex = (nSessions - 1) % PoolSize
  /\ \A s \in 1..nSessions : sessIdentity[s] = (s - 1) % PoolSize

C25_Step ==
  (client' # client \/ nSessions' # nSessions \/ currentSessionIndex' # currentSessionIndex)
    => /\ currentSessionIndex' = (currentSessionIndex + 1) % PoolSize
       /\ nSessions' = nSessions + 1
       /\ client' = nSessions'
       /\ sessIdentity'[client'] = currentSessionIndex'
       /\ sessState'[client'] = "connecting"

C25_FailoverAdvancesIndex == [](C25_Inv) /\ [][C25_Step]_vars

\* Three failovers from index 0 with a pool of two: the index wrapped to 0 and
\* advanced again to 1.
C25_Witness ==
  /\ nSessions = PoolSize + 2
  /\ currentSessionIndex = 1
  /\ sessIdentity[client] = 1
  /\ sessIdentity[PoolSize + 1] = 0

\* C26: a failover installs as current an instance that did not exist before,
\* in the step of the failover and while that instance is still connecting;
\* an instance for which destroy was requested stays so and is never current
\* again, also when the pool wraps around to its identity.
C26_Inv == client \notin destroyRequested

C26_Step ==
  /\ destroyRequested \subseteq destroyRequested'
  /\ client' # client
       => /\ client' \notin 1..nSessions
          /\ client \in destroyRequested'
          /\ sessState'[client'] = "connecting"

C26_FailoverInstallsFreshInstance == [](C26_Inv) /\ [][C26_Step]_vars

\* The pool wrapped around: the current instance runs under the identity of the
\* first instance, which was destroyed, and did not reach ready yet.
C26_Witness ==
  /\ client # 1
  /\ 1 \in destroyRequested
  /\ sessIdentity[client] = sessIdentity[1]
  /\ sessState[client] = "connecting"
  /\ sessState[1] = "ready"

\* C27: a failover whose destroy() of the old session fails, by throwing or by
\* rejecting, still completes in the same step: the index is advanced by one
\* modulo the pool size and a new instance is created under that identity,
\* starts connecting and is the current one.
C27_Step ==
  (/\ destroyResult[client] = "none"
   /\ destroyResult'[client] \in {"throws", "rejects"})
    => /\ currentSessionIndex' = (currentSessionIndex + 1) % PoolSize
       /\ client' # client
       /\ client' \notin 1..nSessions
       /\ sessIdentity'[client'] = currentSessionIndex'
       /\ sessState'[client'] = "connecting"

C27_DestroyFailureDoesNotBlockFailover == [][C27_Step]_vars

\* One destroy() threw and another one rejected; the session installed by the
\* last failover went on to become ready.
C27_Witness ==
  /\ \E s \in 1..nSessions : destroyResult[s] = "throws"
  /\ \E s \in 1..nSessions : destroyResult[s] = "rejects"
  /\ destroyResult[client] = "none"
  /\ destroyResult[client - 1] # "ok"
  /\ sessState[client] = "ready"

\* C28: a send issued by a queued job goes to the instance that is current in
\* the step that issues it, whatever instance was current when the job was
\* enqueued; a job enqueued before a failover and started after it sends on
\* the new instance.
C28_Step ==
  \A j \in JobIds :
    (j \notin inflight /\ j \in inflight')
      => /\ sentOn'[j] = client
         /\ client' = client

C28_SendTargetsCurrentSession == [][C28_Step]_vars

\* A job that was enqueued under an instance that has been replaced since is
\* sending on the current instance.
C28_Witness ==
  \E j \in inflight :
    /\ enqueuedOn[j] # 0
    /\ enqueuedOn[j] # sentOn[j]
    /\ enqueuedOn[j] \in destroyRequested
    /\ sentOn[j] = client

\* The deadline of the wait on message m fires in this step: its timer leaves
\* the armed ones and no reply is cached by the step (a reply cancels it).
C29_Fires(m) ==
  m \in deadlineArmed /\ m \notin deadlineArmed' /\ respuestas' = respuestas

\* C29: when the deadline of the wait on (c, m) fires while the mapping of c
\* points at m and no reply is cached for m, the mapping of c is removed and
\* every waiter suspended on m is answered "no reply" (Tiempo agotado), the
\* other waiters staying as they are; when the mapping does not point at m or
\* a reply is cached, the firing changes neither the mapping, nor the reply
\* cache, nor any waiter.
C29_Step ==
  \A m \in MsgIds :
    C29_Fires(m) =>
      LET c == waitConv[m]
      IN IF MapHas(esperas, c) /\ esperas[c] = m /\ ~MapHas(respuestas, m)
           THEN /\ ~MapHas(esperas', c)
                /\ \A w \in Waiters :
                     lookups'[w] = IF lookups[w].st = "suspended" /\ lookups[w].m = m
                                     THEN [lookups[w] EXCEPT !.st = "timedout"]
                                     ELSE lookups[w]
                /\ ~MapHas(resolvers', m)
           ELSE /\ esperas' = esperas
                /\ lookups' = lookups

C29_DeadlineFiring == [][C29_Step]_vars

\* Both cases happened: the deadline of message 1, superseded by message 2 in
\* the same conversation, fired without effect (its resolver list is still
\* there), and the deadline of message 2 fired and answered a waiter.
C29_Witness ==
  /\ waitConv[1] = waitConv[2]
  /\ Registered(1) /\ Registered(2)
  /\ 1 \notin deadlineArmed /\ 2 \notin deadlineArmed
  /\ ~MapHas(respuestas, 1) /\ ~MapHas(respuestas, 2)
  /\ MapHas(resolvers, 1)
  /\ ~MapHas(esperas, waitConv[2])
  /\ \E w \in Waiters : lookups[w].st = "timedout" /\ lookups[w].m = 2

\* C30: once the deadline of the wait on (c, m) has fired with no reply, no
\* step caches a reply under m and no request for m is answered with a reply,
\* whatever arrives on c afterwards.
C30_Step ==
  \A m \in MsgIds :
    Expired(m) =>
      /\ ~MapHas(respuestas', m)
      /\ \A w \in Waiters :
           lookups'[w].m = m => lookups'[w].st \notin {"reply", "cached"}

C30_NoReplyAfterDeadline == [][C30_Step]_vars

\* The deadline of message 1 fired and answered its waiter "no reply"; a later
\* wait on the same conversation, for message 2, got the reply that arrived
\* afterwards, and message 1 has none.
C30_Witness ==
  /\ waitConv[1] = waitConv[2]
  /\ \E w \in Waiters : lookups[w].st = "timedout" /\ lookups[w].m = 1
  /\ ~MapHas(respuestas, 1)
  /\ MapHas(respuestas, 2)
  /\ \E w \in Waiters : lookups[w].st \in {"reply", "cached"} /\ lookups[w].m = 2

\* C31: an inbound message from a conversation that has no registered wait
\* leaves the correlator as it is: no reply is cached, no mapping is added or
\* removed, no waiter list changes, no waiter is woken and no timer is
\* cancelled.
C31_Step ==
  (inboundLog' # inboundLog /\ ~MapHas(esperas, inboundLog'.from))
    => UNCHANGED <<esperas, respuestas, resolvers, timeouts, deadlineArmed, lookups>>

C31_UnawaitedInboundIgnored == [][C31_Step]_vars

\* A message from the conversation that never asked to wait was handled while
\* another conversation had a wait with a suspended waiter and a pending
\* deadline, all of which are still there.
C31_Witness ==
  /\ inboundLog.from = MaxConvs + 1
  /\ MapHas(esperas, 1)
  /\ esperas[1] \in deadlineArmed
  /\ \E w \in Waiters : lookups[w].st = "suspended" /\ lookups[w].m = esperas[1]
  /\ respuestas = <<>>

\* C32: the disconnected event of an instance that is not the current one (a
\* failover replaced it) neither destroys nor replaces the current session:
\* only the disconnect of the current instance changes which one is current.
C32_Step ==
  \A s \in 1..nSessions :
    (sessState[s] = "ready" /\ sessState'[s] = "disconnected" /\ s # client)
      => /\ client' = client
         /\ currentSessionIndex' = currentSessionIndex
         /\ destroyRequested' = destroyRequested

C32_StaleDisconnectIgnored == [][C32_Step]_vars

\* C33: in the readiness-gated variant clientReady is true only while the
\* instance that is installed as current has itself emitted ready; the ready
\* event of a replaced instance never sets it, also when that instance shares
\* its identity with the current one after the pool wrapped around.
C33_Inv == clientReady => sessState[client] = "ready"

C33_Step ==
  \A s \in 1..nSessions :
    (sessState[s] = "connecting" /\ sessState'[s] = "ready" /\ s # client)
      => clientReady' = clientReady

C33_ReadyFlagMeansCurrentReady == [](C33_Inv) /\ [][C33_Step]_vars

\* C34: in every state, when no processing loop is active the send queue is
\* empty and no job is being executed; when one is active it is executing
\* exactly one job; so at most one loop runs, and a job never sits in the queue
\* without a loop that will take it.
C34_Inv ==
  /\ ~processing => (queue = <<>> /\ \A j \in JobIds : ~Running(j))
  /\ processing => Cardinality({j \in JobIds : Running(j)}) = 1
  /\ \A j \in 1..nJobs : invoked[j] = 0 <=> j \in Range(queue)

C34_Step ==
  (processing /\ ~processing') => (queue = <<>> /\ queue' = <<>>)

C34_IdleQueueIsEmpty == [](C34_Inv) /\ [][C34_Step]_vars

\* Jobs were enqueued while the loop was active (the third one was still
\* waiting when the second one started), jobs failed, and the loop drained the
\* queue and stopped.
C34_Witness ==
  /\ ~processing
  /\ nJobs = MaxJobs
  /\ startOrder = <<1, 2, 3>>
  /\ \E j \in JobIds : outcome[j] = RejectOutcome
  /\ \E j \in JobIds : outcome[j] = TimerOutcome
  /\ \A j \in JobIds : callerResult[j] # "none"

\* C35: every idMensaje that some conversation is mapped to has a waiter list
\* in resolvers, in every state; so a lookup that finds the id awaited can
\* push its resolver: no lookup ends in the error of a missing list.
C35_Inv ==
  /\ \A c \in DOMAIN esperas : MapHas(resolvers, esperas[c])
  /\ \A w \in Waiters : lookups[w].st # "error"

C35_Step ==
  \A w \in Waiters :
    (lookups[w].st = "idle" /\ lookups'[w].st = "suspended")
      => /\ MapHas(resolvers, lookups'[w].m)
         /\ w \in resolvers'[lookups'[w].m]

C35_AwaitedIdHasWaiterList == [](C35_Inv) /\ [][C35_Step]_vars

\* A second wait superseded the first one on the same conversation and lookups
\* for it registered their waiters.
C35_Witness ==
  /\ MapHas(esperas, 1)
  /\ esperas[1] = 2
  /\ waitConv[1] = waitConv[2]
  /\ MapHas(resolvers, 1)
  /\ MapHas(resolvers, 2)
  /\ resolvers[2] = Waiters

\* C36: whenever a reply is cached for idMensaje m, no conversation is mapped
\* to m, no lookup is suspended on m (m has no waiter list) and no deadline
\* timer of m is pending or stored.
C36_ReplyCachedMeansWaitOver ==
  \A m \in DOMAIN respuestas :
    /\ \A c \in DOMAIN esperas : esperas[c] # m
    /\ \A w \in Waiters : ~(lookups[w].st = "suspended" /\ lookups[w].m = m)
    /\ ~MapHas(resolvers, m)
    /\ m \notin deadlineArmed
    /\ m \notin timeouts

\* Replies are cached for two messages, one of them handed to a lookup that
\* was suspended, while a third wait on the same conversation is active with
\* its deadline pending.
C36_Witness ==
  /\ MapHas(respuestas, 1) /\ MapHas(respuestas, 2)
  /\ \E w \in Waiters : lookups[w].st = "reply" /\ lookups[w].m \in {1, 2}
  /\ MapHas(esperas, 1) /\ esperas[1] = 3
  /\ 3 \in deadlineArmed

\* C37: once the deadline timer of idMensaje m is no longer pending, the
\* correlator holds nothing for m but a possibly cached reply: no waiter list,
\* no stored timer and no conversation mapped to m, also when a later
\* registration superseded m's mapping before the deadline.
C37_NothingLeftAfterDeadline ==
  \A m \in MsgIds :
    (Registered(m) /\ m \notin deadlineArmed)
      => /\ ~MapHas(resolvers, m)
         /\ m \notin timeouts
         /\ \A c \in DOMAIN esperas : esperas[c] # m

====
